---- MODULE Spec2Model ----
(***************************************************************************)
(* Name Guard V2 (src/name_guard_v2.py): detection of Chinese personal     *)
(* names in subtitle text and their replacement by placeholders.           *)
(*                                                                         *)
(* A Python str is a sequence of characters; a character is a TLA+ string. *)
(* CJK characters (U+4E00..U+9FFF) are written in capitalised pinyin       *)
(* ("Wang", "Ge", "Lao", ...); the full-width punctuation marks are        *)
(* written "FW," "FW." ...; every other character is itself.  Offsets are  *)
(* 0-based and half-open, as in the source.                                *)
(***************************************************************************)
EXTENDS Integers, Sequences, FiniteSets, TLC

VARIABLES
    config,              \* self.config: the RuleSet of the NameGuard instance
    text,                \* argument of extract_and_replace_names
    sep_marker,          \* argument of extract_and_replace_names
    pc,                  \* position in extract_and_replace_names / harness
    parts,               \* text.split(sep_marker)
    part_idx,            \* 0-based index of the next part to process
    name_map,            \* ordered dict placeholder -> name
    name_to_placeholder, \* ordered dict name -> placeholder
    name_index,          \* next placeholder index
    occurrence_cache,    \* dict word -> context.count(word)
    replaced_parts,      \* rewritten parts so far
    all_names,           \* names in first-seen order
    candidates,          \* candidates[k]: the candidates of the k-th part
    selected,            \* selected[k]: _select_non_overlapping of them
    replacements,        \* replacements[k]: its (start, end, placeholder) list
    result,              \* what the call returned or raised
    calls,               \* number of calls made on the instance
    first,               \* the instance's first call: arguments, result, and
                         \* whether a call with other arguments followed it
    query,               \* arguments of a direct is_name call
    answer               \* what the direct is_name call returned

vars == <<config, text, sep_marker, pc, parts, part_idx, name_map,
          name_to_placeholder, name_index, occurrence_cache, replaced_parts,
          all_names, candidates, selected, replacements, result, calls,
          first, query, answer>>

(***************************************************************************)
(* Bounds of the model.                                                    *)
(***************************************************************************)
\* longest generated text, in tokens (a token is a character or the separator)
MaxLen == 3
\* calls made on one instance in SpecCalls
MaxCalls == 3
\* longest word handed to is_name directly in SpecIsName
MaxWordLen == 2

(***************************************************************************)
(* Characters.                                                             *)
(***************************************************************************)
\* CHINESE_PATTERN, [U+4E00-U+9FFF]+: the CJK characters the model uses
CHINESE_CHARS ==
    {"Wang", "Ge", "Lao", "Xiao", "A", "Ping", "An", "Shi", "Fu", "Zhang",
     "San", "Shuo", "Li", "Si", "Bu", "Zai", "Ming", "Hong", "Qiang", "Lai",
     "Zhao", "Le", "Bie", "Zhe", "Yang"}

BOUNDARY_CHARS ==
    {"FW,", "FW.", "FW!", "FW?", "FWDun", "FW;", "FW:",
     ",", ".", "!", "?", ";", ":", " ", "\t", "\n"}

IsChinese(c) == c \in CHINESE_CHARS

(***************************************************************************)
(* Python str operations.                                                  *)
(***************************************************************************)
Min(a, b) == IF a < b THEN a ELSE b
Max(a, b) == IF a > b THEN a ELSE b

\* s[a:b] for 0 <= a
PySlice(s, a, b) == SubSeq(s, a + 1, Min(b, Len(s)))

\* s[a:]
PyFrom(s, a) == SubSeq(s, a + 1, Len(s))

\* p occurs in s at 0-based offset i
OccursAt(s, p, i) ==
    /\ i >= 0
    /\ i + Len(p) <= Len(s)
    /\ \A k \in 1..Len(p) : s[i + k] = p[k]

\* s.startswith(p)
StartsWith(s, p) == OccursAt(s, p, 0)

\* s.endswith(p)
EndsWith(s, p) == OccursAt(s, p, Len(s) - Len(p))

\* p in s
Contains(s, p) == \E i \in 0..Len(s) : OccursAt(s, p, i)

\* s.count(w): non-overlapping occurrences, leftmost first
RECURSIVE CountFrom(_, _, _)
CountFrom(s, w, i) ==
    IF i + Len(w) > Len(s) THEN 0
    ELSE IF OccursAt(s, w, i) THEN 1 + CountFrom(s, w, i + Max(Len(w), 1))
    ELSE CountFrom(s, w, i + 1)

PyCount(s, w) == CountFrom(s, w, 0)

\* s.split(sep) for a non-empty sep: i scans, from is where the open part began
RECURSIVE SplitFrom(_, _, _, _)
SplitFrom(s, sep, i, from) ==
    IF i + Len(sep) > Len(s) THEN <<PyFrom(s, from)>>
    ELSE IF OccursAt(s, sep, i)
         THEN <<PySlice(s, from, i)>> \o SplitFrom(s, sep, i + Len(sep), i + Len(sep))
         ELSE SplitFrom(s, sep, i + 1, from)

PySplit(s, sep) == SplitFrom(s, sep, 0, 0)

\* sep.join(ps)
RECURSIVE PyJoin(_, _)
PyJoin(ps, sep) ==
    IF Len(ps) = 0 THEN <<>>
    ELSE IF Len(ps) = 1 THEN ps[1]
    ELSE ps[1] \o sep \o PyJoin(Tail(ps), sep)

\* str(n) for n >= 0
DigitChar(d) == <<"0", "1", "2", "3", "4", "5", "6", "7", "8", "9">>[d + 1]

RECURSIVE PyStr(_)
PyStr(n) == IF n < 10 THEN <<DigitChar(n)>> ELSE PyStr(n \div 10) \o <<DigitChar(n % 10)>>

\* fmt.format(index=n): the element "{index}" of the template is the slot
RECURSIVE PyFormat(_, _)
PyFormat(fmt, n) ==
    IF fmt = <<>> THEN <<>>
    ELSE (IF Head(fmt) = "{index}" THEN PyStr(n) ELSE <<Head(fmt)>>) \o PyFormat(Tail(fmt), n)

(***************************************************************************)
(* Ordered dicts: sequences of <<key, value>> in insertion order.          *)
(***************************************************************************)
DictHas(d, k) == \E i \in 1..Len(d) : d[i][1] = k

DictGet(d, k) == d[CHOOSE i \in 1..Len(d) : d[i][1] = k][2]

\* d[k] = v
DictSet(d, k, v) ==
    IF DictHas(d, k)
    THEN [i \in 1..Len(d) |-> IF d[i][1] = k THEN <<k, v>> ELSE d[i]]
    ELSE Append(d, <<k, v>>)

DictKeys(d) == {d[i][1] : i \in 1..Len(d)}

DictValues(d) == {d[i][2] : i \in 1..Len(d)}

(***************************************************************************)
(* NameGuardConfig: the RuleSet.                                           *)
(***************************************************************************)
\* the dataclass defaults
DefaultConfig ==
    [threshold                  |-> 100,
     name_placeholder_format    |-> <<"<", "<", "N", "A", "M", "E", "_", "{index}", ">", ">">>,
     require_strong_signal      |-> TRUE,
     honorific_suffix_weight    |-> 100,
     honorific_prefix_weight    |-> 100,
     call_position_weight       |-> 80,
     repetition_weight          |-> 40,
     pos_exclusion_weight       |-> -30,
     length_structure_weight    |-> 10,
     honorific_suffix_patterns  |-> <<>>,
     honorific_prefix_patterns  |-> << <<"Lao">>, <<"Xiao">>, <<"A">> >>,
     repetition_min_occurrences |-> 2,
     pos_exclusion_words        |-> {},
     length_preferred           |-> <<1, 2, 3>>,
     length_exclude_endings     |-> <<>>,
     interjections              |-> {},
     action_verbs               |-> {},
     pronouns                   |-> {},
     numbers_quantifiers        |-> {},
     kinship_roles              |-> {},
     known_names                |-> {},
     exclude_names              |-> {}]

\* the defaults with the suffix honorifics of the module's docstring and tests
HonorificConfig ==
    [DefaultConfig EXCEPT
        !.honorific_suffix_patterns = << <<"Ge">>, <<"Fu">>, <<"Shi", "Fu">> >>]

\* an allow-list (the names of test_name_guard's allow-list case) and a deny-list
KnownConfig ==
    [HonorificConfig EXCEPT
        !.known_names   = { <<"Zhang", "San">>, <<"Li", "Si">>, <<"Wang">> },
        !.exclude_names = { <<"Wang">>, <<"Lao">> }]

\* no strong signal required, a low threshold, and every exclusion list in use
LooseConfig ==
    [HonorificConfig EXCEPT
        !.require_strong_signal  = FALSE,
        !.threshold              = 10,
        !.pos_exclusion_words    = { <<"Lao">> },
        !.length_exclude_endings = << <<"Le">> >>,
        !.interjections          = { <<"A">>, <<"Ge", "Ge">> },
        !.action_verbs           = { <<"Lai">> },
        !.pronouns               = { <<"Zhe">> },
        !.numbers_quantifiers    = { <<"San">> },
        !.kinship_roles          = { <<"Lao", "Ge">> }]

\* the allow-list with a placeholder format that begins as it ends
HashFormatConfig ==
    [KnownConfig EXCEPT !.name_placeholder_format = <<"#", "{index}", "#">>]

Configs == {HonorificConfig, KnownConfig, LooseConfig, HashFormatConfig}

(***************************************************************************)
(* Gate 1.                                                                 *)
(***************************************************************************)
is_strongly_excluded(cfg, word) ==
    \/ word \in cfg.interjections
    \/ \E intj \in cfg.interjections : Len(intj) >= 2 /\ Contains(word, intj)
    \/ Len(word) >= 2 /\ \E verb \in cfg.action_verbs : StartsWith(word, verb)
    \/ \E pronoun \in cfg.pronouns : Contains(word, pronoun)
    \/ \E num \in cfg.numbers_quantifiers : Contains(word, num)
    \/ word \in cfg.kinship_roles

(***************************************************************************)
(* Affix matcher.                                                          *)
(***************************************************************************)
\* sorted(patterns, key=len, reverse=True): stable, longest first
SortByLenDesc(ps) ==
    LET before(i) == {j \in 1..Len(ps) :
                         \/ Len(ps[j]) > Len(ps[i])
                         \/ Len(ps[j]) = Len(ps[i]) /\ j < i}
    IN  [p \in 1..Len(ps) |-> ps[CHOOSE i \in 1..Len(ps) : Cardinality(before(i)) = p - 1]]

NoMatch == [matched |-> FALSE, name |-> <<>>, affix |-> <<>>]

\* _suffix_pattern: ^([CJK]{1,3})(s1|s2|...)$ with the suffixes longest first.
\* The name group is greedy: name lengths are tried from 3 down to 1, and for
\* each the alternatives in order.
_extract_from_suffix_word(cfg, word) ==
    LET sorted_suffixes == SortByLenDesc(cfg.honorific_suffix_patterns)
        fits(n) == /\ n <= Len(word)
                   /\ \A k \in 1..n : IsChinese(word[k])
                   /\ \E i \in 1..Len(sorted_suffixes) : PyFrom(word, n) = sorted_suffixes[i]
        lens == {n \in 1..3 : fits(n)}
    IN  IF Len(sorted_suffixes) = 0 \/ lens = {} THEN NoMatch
        ELSE LET n == CHOOSE m \in lens : \A o \in lens : o <= m
             IN  [matched |-> TRUE, name |-> PySlice(word, 0, n), affix |-> PyFrom(word, n)]

\* _prefix_pattern: ^(p1|p2|...)([CJK]{1,2})$ with the prefixes longest first:
\* the first alternative after which 1 or 2 CJK characters end the word
_extract_from_prefix_word(cfg, word) ==
    LET sorted_prefixes == SortByLenDesc(cfg.honorific_prefix_patterns)
        fits(i) == LET p == sorted_prefixes[i]
                       r == PyFrom(word, Len(p))
                   IN  /\ StartsWith(word, p)
                       /\ Len(r) \in 1..2
                       /\ \A k \in 1..Len(r) : IsChinese(r[k])
        alts == {i \in 1..Len(sorted_prefixes) : fits(i)}
    IN  IF Len(sorted_prefixes) = 0 \/ alts = {} THEN NoMatch
        ELSE LET i == CHOOSE j \in alts : \A o \in alts : j <= o
                 p == sorted_prefixes[i]
             IN  [matched |-> TRUE, name |-> PyFrom(word, Len(p)), affix |-> p]

(***************************************************************************)
(* Scorer and is_name.  The occurrence cache is passed in and handed back, *)
(* as the dict the source mutates in place.                                *)
(***************************************************************************)
InSeq(x, s) == \E i \in 1..Len(s) : s[i] = x

score_candidate(cfg, word, context, is_call_position, has_affix, cache) ==
    LET word_len == Len(word)
        \* rule 1
        s1 == IF has_affix THEN cfg.honorific_suffix_weight ELSE 0
        g1 == has_affix
        \* rule 2
        r2 == is_call_position /\ cfg.call_position_weight > 0
        s2 == IF r2 THEN cfg.call_position_weight ELSE 0
        g2 == r2 /\ 2 <= word_len /\ word_len <= 3
        \* rule 3
        r3 == cfg.repetition_weight > 0
        cache3 == IF r3 /\ word \notin DOMAIN cache
                  THEN (word :> PyCount(context, word)) @@ cache
                  ELSE cache
        hit3 == r3 /\ cache3[word] >= cfg.repetition_min_occurrences
        s3 == IF hit3 THEN cfg.repetition_weight ELSE 0
        g3 == hit3 /\ 2 <= word_len /\ word_len <= 3
        \* rule 4
        s4 == IF word \in cfg.pos_exclusion_words THEN cfg.pos_exclusion_weight ELSE 0
        \* rule 5
        exclude_ending == \E i \in 1..Len(cfg.length_exclude_endings) :
                              EndsWith(word, cfg.length_exclude_endings[i])
        s5 == IF InSeq(word_len, cfg.length_preferred) /\ ~exclude_ending
              THEN cfg.length_structure_weight ELSE 0
    IN  [score |-> s1 + s2 + s3 + s4 + s5,
         has_strong_signal |-> g1 \/ g2 \/ g3,
         cache |-> cache3]

\* is_name accepting only a score strictly above the threshold
is_name_above_threshold(cfg, word, context, is_call_position, has_affix, cache) ==
    IF word \in cfg.known_names
    THEN [is_name |-> TRUE, score |-> 999, cache |-> cache]
    ELSE IF is_strongly_excluded(cfg, word) \/ word \in cfg.exclude_names
    THEN [is_name |-> FALSE, score |-> -999, cache |-> cache]
    ELSE LET sc == score_candidate(cfg, word, context, is_call_position, has_affix, cache)
         IN  IF cfg.require_strong_signal /\ ~sc.has_strong_signal
             THEN [is_name |-> FALSE, score |-> 0, cache |-> sc.cache]
             ELSE [is_name |-> sc.score > cfg.threshold, score |-> sc.score,
                   cache |-> sc.cache]

\* is_name with gate 1 and the deny-list ahead of the allow-list
is_name_gates_first(cfg, word, context, is_call_position, has_affix, cache) ==
    IF is_strongly_excluded(cfg, word) \/ word \in cfg.exclude_names
    THEN [is_name |-> FALSE, score |-> -999, cache |-> cache]
    ELSE IF word \in cfg.known_names
    THEN [is_name |-> TRUE, score |-> 999, cache |-> cache]
    ELSE LET sc == score_candidate(cfg, word, context, is_call_position, has_affix, cache)
         IN  IF cfg.require_strong_signal /\ ~sc.has_strong_signal
             THEN [is_name |-> FALSE, score |-> 0, cache |-> sc.cache]
             ELSE [is_name |-> sc.score >= cfg.threshold, score |-> sc.score,
                   cache |-> sc.cache]

is_name(cfg, word, context, is_call_position, has_affix, cache) ==
    IF word \in cfg.known_names
    THEN [is_name |-> TRUE, score |-> 999, cache |-> cache]
    ELSE IF is_strongly_excluded(cfg, word)
    THEN [is_name |-> FALSE, score |-> -999, cache |-> cache]
    ELSE IF word \in cfg.exclude_names
    THEN [is_name |-> FALSE, score |-> -999, cache |-> cache]
    ELSE LET sc == score_candidate(cfg, word, context, is_call_position, has_affix, cache)
         IN  IF cfg.require_strong_signal /\ ~sc.has_strong_signal
             THEN [is_name |-> FALSE, score |-> 0, cache |-> sc.cache]
             ELSE [is_name |-> sc.score >= cfg.threshold, score |-> sc.score,
                   cache |-> sc.cache]

(***************************************************************************)
(* Candidate extractor.                                                    *)
(***************************************************************************)
\* a candidate whose span covers the whole token, the affix included
NameCandidateOfToken(name, start, end, score, has_affix, affix_type, affix) ==
    [name |-> name,
     start |-> IF affix_type = "prefix" THEN start - Len(affix) ELSE start,
     end |-> IF affix_type = "suffix" THEN end + Len(affix) ELSE end,
     score |-> score, has_affix |-> has_affix, affix_type |-> affix_type,
     affix |-> affix]

\* NameCandidate
NameCandidate(name, start, end, score, has_affix, affix_type, affix) ==
    [name |-> name, start |-> start, end |-> end, score |-> score,
     has_affix |-> has_affix, affix_type |-> affix_type, affix |-> affix]

\* NameCandidate.priority
priority(c) == <<IF c.has_affix THEN 1 ELSE 0, c.score, -c.start>>

\* tuple comparison a > b
TupleGreater(a, b) ==
    \/ a[1] > b[1]
    \/ a[1] = b[1] /\ a[2] > b[2]
    \/ a[1] = b[1] /\ a[2] = b[2] /\ a[3] > b[3]

_is_at_boundary(txt, start, end) ==
    LET at_start == (start = 0)
        at_end   == (end = Len(txt))
        before_is_boundary == at_start \/ (start > 0 /\ txt[start] \in BOUNDARY_CHARS)
        after_is_boundary  == at_end \/ (end < Len(txt) /\ txt[end + 1] \in BOUNDARY_CHARS)
    IN  before_is_boundary \/ after_is_boundary

\* the elements of a finite set of integers in increasing order
SortedSeq(S) ==
    [j \in 1..Cardinality(S) |-> CHOOSE x \in S : Cardinality({y \in S : y < x}) = j - 1]

\* CHINESE_PATTERN.finditer(part): the maximal CJK runs, left to right, as
\* <<match.start(), match.end()>>
ChineseRuns(part) ==
    LET starts == {i \in 0..(Len(part) - 1) :
                      IsChinese(part[i + 1]) /\ (i = 0 \/ ~IsChinese(part[i]))}
        RunEnd(i) == CHOOSE j \in (i + 1)..Len(part) :
                         /\ \A k \in (i + 1)..j : IsChinese(part[k])
                         /\ j = Len(part) \/ ~IsChinese(part[j + 1])
        ordered == SortedSeq(starts)
    IN  [r \in 1..Len(ordered) |-> <<ordered[r], RunEnd(ordered[r])>>]

\* the words of one run in the order the two inner loops visit them, as
\* <<word_start, length>>: length from min(4, len(segment)) down to 1, i upwards
RECURSIVE WordsOfRun(_, _, _)
WordsOfRun(segment_start, segment_len, length) ==
    IF length = 0 THEN <<>>
    ELSE [k \in 1..(segment_len - length + 1) |-> <<segment_start + k - 1, length>>]
         \o WordsOfRun(segment_start, segment_len, length - 1)

RECURSIVE WordsOfRuns(_)
WordsOfRuns(runs) ==
    IF runs = <<>> THEN <<>>
    ELSE LET segment_start == Head(runs)[1]
             segment_len   == Head(runs)[2] - Head(runs)[1]
         IN  WordsOfRun(segment_start, segment_len, Min(4, segment_len))
             \o WordsOfRuns(Tail(runs))

\* the body of the innermost loop for one word; acc is [candidates, cache]
ExtractWord(cfg, part, full_context, w, acc) ==
    LET word_start == w[1]
        length     == w[2]
        word_end   == word_start + length
        word       == PySlice(part, word_start, word_end)
        is_call_pos   == (word_start = 0)
        suffix_result == _extract_from_suffix_word(cfg, word)
        prefix_result == _extract_from_prefix_word(cfg, word)
    IN  IF suffix_result.matched
        THEN LET name_part == suffix_result.name
                 r == is_name(cfg, name_part, full_context, is_call_pos, TRUE, acc.cache)
             IN  [candidates |->
                     IF r.is_name
                     THEN Append(acc.candidates,
                                 NameCandidate(name_part, word_start,
                                               word_start + Len(name_part), r.score,
                                               TRUE, "suffix", suffix_result.affix))
                     ELSE acc.candidates,
                  cache |-> r.cache]
        ELSE IF prefix_result.matched
        THEN LET name_part == prefix_result.name
                 r == is_name(cfg, name_part, full_context, is_call_pos, TRUE, acc.cache)
             IN  [candidates |->
                     IF r.is_name
                     THEN Append(acc.candidates,
                                 NameCandidate(name_part,
                                               word_start + Len(prefix_result.affix),
                                               word_end, r.score,
                                               TRUE, "prefix", prefix_result.affix))
                     ELSE acc.candidates,
                  cache |-> r.cache]
        ELSE IF 1 <= length /\ length <= 3 /\ _is_at_boundary(part, word_start, word_end)
        THEN LET r == is_name(cfg, word, full_context, is_call_pos, FALSE, acc.cache)
             IN  [candidates |->
                     IF r.is_name
                     THEN Append(acc.candidates,
                                 NameCandidate(word, word_start, word_end, r.score,
                                               FALSE, "", <<>>))
                     ELSE acc.candidates,
                  cache |-> r.cache]
        ELSE acc

\* The loops over the runs and their words.  Every word is run through the loop
\* body against the cache as it is on entry of the part: an entry that an
\* earlier word of the part adds holds full_context.count(word), which is what
\* a miss computes, so a word reads the same count either way.  The list
\* returned holds the candidates in the order the words are visited; the
\* cache left behind holds the entries of all of them.
\* Returns [candidates, cache].
_extract_candidates_from_part(cfg, part, full_context, is_first_part, cache) ==
    LET ws == WordsOfRuns(ChineseRuns(part))
        Collect(out) ==
            LET emitting == SortedSeq({k \in 1..Len(ws) : out[k].candidates # <<>>})
                keys == UNION {DOMAIN out[k].cache : k \in 1..Len(ws)} \cup DOMAIN cache
            IN  [candidates |-> [j \in 1..Len(emitting) |-> out[emitting[j]].candidates[1]],
                 cache |-> [w \in keys |->
                               IF w \in DOMAIN cache THEN cache[w]
                               ELSE out[CHOOSE k \in 1..Len(ws) :
                                            w \in DOMAIN out[k].cache].cache[w]]]
    IN  Collect([k \in 1..Len(ws) |->
                    ExtractWord(cfg, part, full_context, ws[k],
                                [candidates |-> <<>>, cache |-> cache])])

(***************************************************************************)
(* Overlap resolver.                                                       *)
(***************************************************************************)
\* a stable sort by decreasing (score, -start), blind to has_affix
SortByScoreDesc(cs) ==
    LET key(c) == <<0, c.score, -c.start>>
        before(i) == {j \in 1..Len(cs) :
                         \/ TupleGreater(key(cs[j]), key(cs[i]))
                         \/ key(cs[j]) = key(cs[i]) /\ j < i}
    IN  [p \in 1..Len(cs) |-> cs[CHOOSE i \in 1..Len(cs) : Cardinality(before(i)) = p - 1]]

\* sorted(candidates, key=lambda c: c.priority, reverse=True): stable, so a
\* candidate goes after those of greater priority and after the earlier ones
\* of equal priority
SortByPriorityDesc(cs) ==
    LET before(i) == {j \in 1..Len(cs) :
                         \/ TupleGreater(priority(cs[j]), priority(cs[i]))
                         \/ priority(cs[j]) = priority(cs[i]) /\ j < i}
    IN  [p \in 1..Len(cs) |-> cs[CHOOSE i \in 1..Len(cs) : Cardinality(before(i)) = p - 1]]

\* an overlap test that only looks where the candidate starts
OverlapsStartOnly(candidate, used_ranges) ==
    \E i \in 1..Len(used_ranges) :
        used_ranges[i][1] <= candidate.start /\ candidate.start < used_ranges[i][2]

\* the overlap test of the greedy loop against the ranges used so far
Overlaps(candidate, used_ranges) ==
    \E i \in 1..Len(used_ranges) :
        candidate.start < used_ranges[i][2] /\ candidate.end > used_ranges[i][1]

RECURSIVE SelectLoop(_, _, _)
SelectLoop(sorted_candidates, sel, used_ranges) ==
    IF sorted_candidates = <<>> THEN sel
    ELSE LET candidate == Head(sorted_candidates)
         IN  IF ~Overlaps(candidate, used_ranges)
             THEN SelectLoop(Tail(sorted_candidates), Append(sel, candidate),
                             Append(used_ranges, <<candidate.start, candidate.end>>))
             ELSE SelectLoop(Tail(sorted_candidates), sel, used_ranges)

_select_non_overlapping(cands) ==
    IF cands = <<>> THEN <<>>
    ELSE SelectLoop(SortByPriorityDesc(cands), <<>>, <<>>)

(***************************************************************************)
(* Placeholder assigner and rewriter.                                      *)
(***************************************************************************)
\* the loop body without the reuse of a placeholder already assigned
AssignOneNoReuse(cfg, candidate, st) ==
    LET placeholder == PyFormat(cfg.name_placeholder_format, st.name_index)
    IN  [name_map            |-> DictSet(st.name_map, placeholder, candidate.name),
         name_to_placeholder |-> DictSet(st.name_to_placeholder, candidate.name, placeholder),
         all_names           |-> Append(st.all_names, candidate.name),
         name_index          |-> st.name_index + 1,
         replacements        |-> Append(st.replacements,
                                        <<candidate.start, candidate.end, placeholder>>)]

\* the loop body counting from one: the index is incremented before it is used
AssignOneOneBased(cfg, candidate, st) ==
    IF DictHas(st.name_to_placeholder, candidate.name)
    THEN [st EXCEPT !.replacements =
             Append(@, <<candidate.start, candidate.end,
                         DictGet(st.name_to_placeholder, candidate.name)>>)]
    ELSE LET placeholder == PyFormat(cfg.name_placeholder_format, st.name_index + 1)
         IN  [name_map            |-> DictSet(st.name_map, placeholder, candidate.name),
              name_to_placeholder |-> DictSet(st.name_to_placeholder, candidate.name, placeholder),
              all_names           |-> Append(st.all_names, candidate.name),
              name_index          |-> st.name_index + 1,
              replacements        |-> Append(st.replacements,
                                             <<candidate.start, candidate.end, placeholder>>)]

\* the body of "for candidate in selected"; st is the record of the locals
\* name_map, name_to_placeholder, all_names, name_index, replacements
AssignOne(cfg, candidate, st) ==
    LET name == candidate.name
    IN  IF DictHas(st.name_to_placeholder, name)
        THEN [st EXCEPT !.replacements =
                 Append(@, <<candidate.start, candidate.end,
                             DictGet(st.name_to_placeholder, name)>>)]
        ELSE LET placeholder == PyFormat(cfg.name_placeholder_format, st.name_index)
             IN  [name_map            |-> DictSet(st.name_map, placeholder, name),
                  name_to_placeholder |-> DictSet(st.name_to_placeholder, name, placeholder),
                  all_names           |-> Append(st.all_names, name),
                  name_index          |-> st.name_index + 1,
                  replacements        |-> Append(st.replacements,
                                                 <<candidate.start, candidate.end, placeholder>>)]

\* the loop walking the selected candidates from the last to the first
RECURSIVE AssignPlaceholdersBackwards(_, _, _)
AssignPlaceholdersBackwards(cfg, sel, st) ==
    IF sel = <<>> THEN st
    ELSE AssignPlaceholdersBackwards(cfg, SubSeq(sel, 1, Len(sel) - 1),
                                     AssignOne(cfg, sel[Len(sel)], st))

\* the loop "for candidate in selected"
RECURSIVE AssignPlaceholders(_, _, _)
AssignPlaceholders(cfg, sel, st) ==
    IF sel = <<>> THEN st
    ELSE AssignPlaceholders(cfg, Tail(sel), AssignOne(cfg, Head(sel), st))

\* sorted(replacements, key=lambda x: -x[0]): stable, highest start first
SortByStartDesc(rs) ==
    LET before(i) == {j \in 1..Len(rs) :
                         \/ rs[j][1] > rs[i][1]
                         \/ rs[j][1] = rs[i][1] /\ j < i}
    IN  [p \in 1..Len(rs) |-> rs[CHOOSE i \in 1..Len(rs) : Cardinality(before(i)) = p - 1]]

\* replaced_part[:start] + placeholder + replaced_part[end:]
ReplaceSpanKeepingName(replaced_part, r) ==
    PySlice(replaced_part, 0, r[1]) \o r[3] \o PyFrom(replaced_part, r[1])

ReplaceSpan(replaced_part, r) ==
    PySlice(replaced_part, 0, r[1]) \o r[3] \o PyFrom(replaced_part, r[2])

RECURSIVE ReplaceAll(_, _)
ReplaceAll(replaced_part, rs) ==
    IF rs = <<>> THEN replaced_part
    ELSE ReplaceAll(ReplaceSpan(replaced_part, Head(rs)), Tail(rs))

\* the rewrite walking the spans from the lowest start to the highest
RewriteAscending(part, reps) ==
    LET desc == SortByStartDesc(reps)
    IN  ReplaceAll(part, [p \in 1..Len(desc) |-> desc[Len(desc) + 1 - p]])

\* the replacement loop over sorted(replacements, key=lambda x: -x[0])
RewritePart(part, reps) == ReplaceAll(part, SortByStartDesc(reps))

(***************************************************************************)
(* Inputs.                                                                 *)
(***************************************************************************)
\* the default of the sep_marker parameter, " <sep> "
DefaultSep == <<" ", "<", "s", "e", "p", ">", " ">>

\* the separators a call is made with: the default, one that the placeholder
\* format also contains, and the empty string
Separators == {DefaultSep, <<"<">>, <<>>}

\* what generated texts are made of: CJK characters, a boundary character and
\* the separator of the call
Tokens(sep) ==
    { <<"Wang">>, <<"Ge">>, <<"Lao">>, <<"FW,">> } \cup (IF sep = <<>> THEN {} ELSE {sep})

RECURSIVE TextsUpTo(_, _)
TextsUpTo(tokens, n) ==
    IF n = 0 THEN { <<>> }
    ELSE LET shorter == TextsUpTo(tokens, n - 1)
         IN  shorter \cup {t \o tok : t \in shorter, tok \in tokens}

\* the texts of test_name_guard
TestTexts ==
    { <<"Ping", "An", "FW,", "Ping", "An", "Ge">>,
      <<"Ping", "An", "Ge", "FW,", "Ping", "An">>,
      <<"Ping", "An", "FW,", "Ping", "An", "FW,", "Bie", "Zhe", "Yang">>,
      <<"Ping", "An", "Ge", "FW,", "Ping", "An", "Ge">>,
      <<"Lao", "Wang", "FW,", "Wang", "Shi", "Fu", "Lai", "Le">>,
      <<"Xiao", "Ming", "Shuo", "Xiao", "Hong", "Bu", "Zai">>,
      <<"Zhang", "San", "Shuo", "Li", "Si", "Bu", "Zai">>,
      <<"A", "Qiang", "Lai", "Zhao", "A", "Qiang">> }

\* texts of several segments in which one name recurs, plain and with affixes
SegmentedTexts(sep) ==
    IF sep = <<>> THEN {}
    ELSE { <<"Lao", "Wang">> \o sep \o <<"Wang", "Ge">> \o sep \o <<"Wang">>,
           <<"Ping", "An", "Ge">> \o sep \o <<"Ping", "An", "FW,", "Xiao", "Ming">>,
           <<"Wang", "Ge", "Ge">> \o sep
               \o <<"FW,", "Wang", "Ge", "Ge", "FW,", "Lao", "Wang">>,
           <<"Lao", "Wang">> \o sep
               \o <<"Xiao", "Ming", "Shuo", "Xiao", "Hong", "Bu", "Zai">> }

\* a text in which an allow-listed name lies inside a longer affixed token
AllowListTexts == { <<"Zhang", "San", "Li", "Ge">> }

\* a text with the characters of a placeholder of HashFormatConfig, and no
\* placeholder, around a name
FormatTexts == { <<"#", "0", "Wang">>, <<"Wang", "0", "#">> }

Texts(sep) ==
    TextsUpTo(Tokens(sep), MaxLen) \cup TestTexts \cup SegmentedTexts(sep)
        \cup AllowListTexts \cup FormatTexts

\* the texts of the repeated calls of SpecCalls: test texts, and texts with
\* separators in them
CallTexts ==
    { <<>>,
      <<"Ping", "An", "FW,", "Ping", "An", "Ge">>,
      <<"Lao", "Wang", "FW,", "Wang", "Shi", "Fu", "Lai", "Le">>,
      <<"Zhang", "San", "Shuo", "Li", "Si", "Bu", "Zai">>,
      <<"Wang", "Ge">> \o DefaultSep \o <<"Lao", "Wang">>,
      <<"Lao", "Wang">> \o DefaultSep \o <<"Ping", "An", "Ge">> \o DefaultSep \o <<"Wang", "Ge">>,
      <<"Ge", "Ge", "<", "Wang", "Ge">> }

(***************************************************************************)
(* extract_and_replace_names.                                              *)
(***************************************************************************)
NoResult == [kind |-> "none"]

Raised(e) == [kind |-> "raise", error |-> e]

Returned(replaced_text, nm, names) ==
    [kind |-> "return", replaced_text |-> replaced_text, name_map |-> nm,
     all_names |-> names]

NoCall == [config |-> <<>>, text |-> <<>>, sep_marker |-> <<>>, result |-> NoResult,
           other_since |-> FALSE]

FirstCall(t, s, r) == [config |-> config, text |-> t, sep_marker |-> s,
                       result |-> r, other_since |-> FALSE]

\* locals of which the placeholder index outlives the call
StaleIndexLocals ==
    [name_map            |-> <<>>,
     name_to_placeholder |-> <<>>,
     name_index          |-> name_index,
     occurrence_cache    |-> <<>>,
     replaced_parts      |-> <<>>,
     all_names           |-> <<>>]

\* the locals the call creates before its loop
FreshLocals ==
    [name_map            |-> <<>>,
     name_to_placeholder |-> <<>>,
     name_index          |-> 0,
     occurrence_cache    |-> <<>>,
     replaced_parts      |-> <<>>,
     all_names           |-> <<>>]

\* entry of extract_and_replace_names(t, s): str.split raises ValueError on an
\* empty separator, before any local is bound
Invoke(t, s) ==
    /\ text' = t
    /\ sep_marker' = s
    /\ calls' = calls + 1
    /\ part_idx' = 0
    /\ candidates' = <<>>
    /\ selected' = <<>>
    /\ replacements' = <<>>
    /\ name_map' = FreshLocals.name_map
    /\ name_to_placeholder' = FreshLocals.name_to_placeholder
    /\ name_index' = FreshLocals.name_index
    /\ occurrence_cache' = FreshLocals.occurrence_cache
    /\ replaced_parts' = FreshLocals.replaced_parts
    /\ all_names' = FreshLocals.all_names
    /\ IF s = <<>>
       THEN /\ parts' = <<>>
            /\ pc' = "error"
            /\ result' = Raised("ValueError")
            /\ first' = IF calls = 0
                        THEN FirstCall(t, s, Raised("ValueError"))
                        ELSE [first EXCEPT !.other_since =
                                 @ \/ t # first.text \/ s # first.sep_marker]
       ELSE /\ parts' = PySplit(t, s)
            /\ pc' = "loop"
            /\ result' = NoResult
            /\ first' = IF calls = 0
                        THEN first
                        ELSE [first EXCEPT !.other_since =
                                 @ \/ t # first.text \/ s # first.sep_marker]
    /\ UNCHANGED <<config, query, answer>>

\* the one call of Spec
Call ==
    /\ pc = "idle"
    /\ \E s \in Separators : \E t \in Texts(s) : Invoke(t, s)

\* a call of SpecCalls, on an instance that may have been called before
CallAgain ==
    /\ pc \in {"idle", "done", "error"}
    /\ calls < MaxCalls
    /\ \E s \in Separators : \E t \in CallTexts : Invoke(t, s)

\* one iteration of "for part_idx, part in enumerate(parts)"
ProcessPart ==
    /\ pc = "loop"
    /\ part_idx < Len(parts)
    /\ LET part == parts[part_idx + 1]
       IN  \E ex \in {_extract_candidates_from_part(config, part, text, part_idx = 0,
                                                    occurrence_cache)} :
           \E sel \in {_select_non_overlapping(ex.candidates)} :
           \E st \in {AssignPlaceholders(config, sel,
                         [name_map            |-> name_map,
                          name_to_placeholder |-> name_to_placeholder,
                          all_names           |-> all_names,
                          name_index          |-> name_index,
                          replacements        |-> <<>>])} :
               /\ candidates' = Append(candidates, ex.candidates)
               /\ occurrence_cache' = ex.cache
               /\ selected' = Append(selected, sel)
               /\ name_map' = st.name_map
               /\ name_to_placeholder' = st.name_to_placeholder
               /\ all_names' = st.all_names
               /\ name_index' = st.name_index
               /\ replacements' = Append(replacements, st.replacements)
               /\ replaced_parts' = Append(replaced_parts, RewritePart(part, st.replacements))
    /\ part_idx' = part_idx + 1
    /\ UNCHANGED <<config, text, sep_marker, pc, parts, result, calls, first,
                   query, answer>>

\* replaced_text = sep_marker.join(replaced_parts); return
Return ==
    /\ pc = "loop"
    /\ part_idx = Len(parts)
    /\ LET r == Returned(PyJoin(replaced_parts, sep_marker), name_map, all_names)
       IN  /\ result' = r
           /\ first' = IF calls = 1 THEN FirstCall(text, sep_marker, r) ELSE first
    /\ pc' = "done"
    /\ UNCHANGED <<config, text, sep_marker, parts, part_idx, name_map,
                   name_to_placeholder, name_index, occurrence_cache,
                   replaced_parts, all_names, candidates, selected, replacements,
                   calls, query, answer>>

(***************************************************************************)
(* The legacy module name_guard.py: its scorer and its is_name.  Its config *)
(* has the fields of the records above but the prefix honorifics, with     *)
(* lists where name_guard_v2 has sets.                                     *)
(***************************************************************************)
\* one entry of the scores dict if the rule fired, none otherwise
ScoreEntry(fired, rule, weight) == IF fired THEN << <<rule, weight>> >> ELSE <<>>

RECURSIVE SumScores(_)
SumScores(scores) ==
    IF scores = <<>> THEN 0 ELSE scores[1][2] + SumScores(Tail(scores))

\* returns [score, scores], scores the dict of the rules that fired
score_word(cfg, word, context, is_utterance_start, is_after_sep) ==
    LET hit1 == /\ cfg.honorific_suffix_weight > 0
                /\ \E i \in 1..Len(cfg.honorific_suffix_patterns) :
                       EndsWith(word, cfg.honorific_suffix_patterns[i])
        hit2 == cfg.call_position_weight > 0 /\ (is_utterance_start \/ is_after_sep)
        hit3 == /\ cfg.repetition_weight > 0
                /\ PyCount(context, word) >= cfg.repetition_min_occurrences
        hit4 == cfg.pos_exclusion_weight < 0 /\ word \in cfg.pos_exclusion_words
        hit5 == /\ cfg.length_structure_weight > 0
                /\ InSeq(Len(word), cfg.length_preferred)
                /\ ~\E i \in 1..Len(cfg.length_exclude_endings) :
                        EndsWith(word, cfg.length_exclude_endings[i])
        scores == ScoreEntry(hit1, "honorific_suffix", cfg.honorific_suffix_weight)
                  \o ScoreEntry(hit2, "call_position", cfg.call_position_weight)
                  \o ScoreEntry(hit3, "repetition", cfg.repetition_weight)
                  \o ScoreEntry(hit4, "pos_exclusion", cfg.pos_exclusion_weight)
                  \o ScoreEntry(hit5, "length_structure", cfg.length_structure_weight)
    IN  [score |-> SumScores(scores), scores |-> scores]

\* gate 1 of the legacy module
is_strongly_excluded_legacy(cfg, word) ==
    \/ word \in cfg.interjections
    \/ \E intj \in cfg.interjections : Contains(word, intj) /\ Len(intj) >= 2
    \/ Len(word) >= 2 /\ \E verb \in cfg.action_verbs : StartsWith(word, verb)
    \/ \E pronoun \in cfg.pronouns : Contains(word, pronoun)
    \/ \E num \in cfg.numbers_quantifiers : Contains(word, num)
    \/ word \in cfg.kinship_roles

\* gate 2 of the legacy module
has_strong_signal(cfg, word, context, is_utterance_start, is_after_sep, has_suffix) ==
    LET word_len == Len(word)
    IN  \/ has_suffix
        \/ \E i \in 1..Len(cfg.honorific_suffix_patterns) :
               LET pattern == cfg.honorific_suffix_patterns[i]
               IN  /\ EndsWith(word, pattern)
                   /\ word_len >= 2
                   /\ 1 <= word_len - Len(pattern)
                   /\ word_len - Len(pattern) <= 3
        \/ /\ 2 <= word_len /\ word_len <= 3
           /\ PyCount(context, word) >= cfg.repetition_min_occurrences
        \/ /\ 2 <= word_len /\ word_len <= 3
           /\ (is_utterance_start \/ is_after_sep)

\* returns [is_name, score, scores]
is_name_legacy(cfg, word, context, is_utterance_start, is_after_sep, skip_strong_signal_check) ==
    IF word \in cfg.known_names
    THEN [is_name |-> TRUE, score |-> 999, scores |-> << <<"known_name", 999>> >>]
    ELSE IF is_strongly_excluded_legacy(cfg, word)
    THEN [is_name |-> FALSE, score |-> -999, scores |-> << <<"strong_exclusion", -999>> >>]
    ELSE IF word \in cfg.exclude_names /\ word \notin cfg.known_names
    THEN [is_name |-> FALSE, score |-> -999, scores |-> << <<"exclude_name", -999>> >>]
    ELSE IF /\ cfg.require_strong_signal
            /\ ~skip_strong_signal_check
            /\ ~has_strong_signal(cfg, word, context, is_utterance_start, is_after_sep,
                                  FALSE)
    THEN [is_name |-> FALSE, score |-> 0, scores |-> << <<"no_strong_signal", 0>> >>]
    ELSE LET sw == score_word(cfg, word, context, is_utterance_start, is_after_sep)
         IN  [is_name |-> sw.score >= cfg.threshold, score |-> sw.score,
              scores |-> sw.scores]

(***************************************************************************)
(* A direct call of is_name.                                               *)
(***************************************************************************)
NoQuery == [module |-> "", word |-> <<>>, context |-> <<>>, flags |-> <<>>]

NoAnswer == [is_name |-> FALSE, score |-> 0, cache |-> <<>>, scores |-> <<>>]

\* a RuleSet whose allow-list holds words that every other gate rejects
ClashConfig ==
    [HonorificConfig EXCEPT
        !.known_names         = { <<"A">>, <<"Ge", "Ge">>, <<"Lai", "Wang">>, <<"Zhe">>,
                                  <<"San">>, <<"Lao", "Ge">>, <<"Wang">>, <<"Lao">> },
        !.exclude_names       = { <<"Wang">> },
        !.pos_exclusion_words = { <<"Lao">> },
        !.interjections       = { <<"A">>, <<"Ge", "Ge">> },
        !.action_verbs        = { <<"Lai">> },
        !.pronouns            = { <<"Zhe">> },
        !.numbers_quantifiers = { <<"San">> },
        !.kinship_roles       = { <<"Lao", "Ge">> }]

\* every rule weight 0 and gate 2 off; the threshold is the default
ZeroWeightsConfig ==
    [HonorificConfig EXCEPT
        !.require_strong_signal   = FALSE,
        !.honorific_suffix_weight = 0,
        !.honorific_prefix_weight = 0,
        !.call_position_weight    = 0,
        !.repetition_weight       = 0,
        !.pos_exclusion_weight    = 0,
        !.length_structure_weight = 0]

\* gate 2 on, the call-position and repetition scoring rules disabled, and a
\* threshold the length-structure rule alone reaches
GateOnlyConfig ==
    [HonorificConfig EXCEPT
        !.threshold            = 10,
        !.call_position_weight = 0,
        !.repetition_weight    = 0,
        !.pos_exclusion_words  = { <<"Lao">> }]

IsNameConfigs == {HonorificConfig, KnownConfig, LooseConfig, ClashConfig,
                  ZeroWeightsConfig, GateOnlyConfig}

QueryChars == { <<"Wang">>, <<"Ge">>, <<"Lao">>, <<"Lai">>, <<"Zhe">>, <<"San">>, <<"A">> }

QueryWords == TextsUpTo(QueryChars, MaxWordLen) \ { <<>> }

\* the contexts a word is looked up in: alone, twice, and not at all
QueryContexts(word) == { word, word \o <<"FW,">> \o word, <<"Ge">> }

\* the arguments of a call of name_guard_v2's is_name
Queries ==
    UNION {{[module |-> "name_guard_v2", word |-> w, context |-> c,
             flags |-> [is_call_position |-> cp, has_affix |-> ha]] :
               c \in QueryContexts(w), cp \in BOOLEAN, ha \in BOOLEAN} :
           w \in QueryWords}

\* the arguments of a call of the legacy is_name
LegacyQueries ==
    UNION {{[module |-> "name_guard", word |-> w, context |-> c,
             flags |-> [is_utterance_start |-> us, is_after_sep |-> af,
                        skip_strong_signal_check |-> sk]] :
               c \in QueryContexts(w), us \in BOOLEAN, af \in BOOLEAN, sk \in BOOLEAN} :
           w \in QueryWords}

\* is_name(word, context, is_call_position, has_affix): occurrence_cache is
\* None, so a fresh dict
IsNameCall ==
    /\ pc = "query"
    /\ query.module = "name_guard_v2"
    /\ \E r \in {is_name(config, query.word, query.context,
                          query.flags.is_call_position, query.flags.has_affix, <<>>)} :
           answer' = [is_name |-> r.is_name, score |-> r.score, cache |-> r.cache,
                      scores |-> <<>>]
    /\ pc' = "answered"
    /\ UNCHANGED <<config, text, sep_marker, parts, part_idx, name_map,
                   name_to_placeholder, name_index, occurrence_cache,
                   replaced_parts, all_names, candidates, selected, replacements,
                   result, calls, first, query>>

\* the legacy is_name(word, context, position, is_utterance_start, is_after_sep,
\* skip_strong_signal_check); nothing reads position
IsNameCallLegacy ==
    /\ pc = "query"
    /\ query.module = "name_guard"
    /\ \E r \in {is_name_legacy(config, query.word, query.context,
                                 query.flags.is_utterance_start,
                                 query.flags.is_after_sep,
                                 query.flags.skip_strong_signal_check)} :
           answer' = [is_name |-> r.is_name, score |-> r.score, cache |-> <<>>,
                      scores |-> r.scores]
    /\ pc' = "answered"
    /\ UNCHANGED <<config, text, sep_marker, parts, part_idx, name_map,
                   name_to_placeholder, name_index, occurrence_cache,
                   replaced_parts, all_names, candidates, selected, replacements,
                   result, calls, first, query>>

(***************************************************************************)
(* A direct call of an affix matcher on one token.                         *)
(***************************************************************************)
AffixConfigs == {DefaultConfig, HonorificConfig}

AffixChars == { <<"Wang">>, <<"Shi">>, <<"Fu">>, <<"Ge">>, <<"Lao">> }

\* the words the extractor hands to the matchers: 1 to 4 CJK characters
AffixTokens == TextsUpTo(AffixChars, 4) \ { <<>> }

AffixQueries ==
    {[module |-> "name_guard_v2", word |-> w, context |-> <<>>, flags |-> <<>>] :
        w \in AffixTokens}

\* _extract_from_suffix_word(word)
SuffixCall ==
    /\ pc = "token"
    /\ answer' = _extract_from_suffix_word(config, query.word)
    /\ pc' = "suffix_tried"
    /\ UNCHANGED <<config, text, sep_marker, parts, part_idx, name_map,
                   name_to_placeholder, name_index, occurrence_cache,
                   replaced_parts, all_names, candidates, selected, replacements,
                   result, calls, first, query>>

\* _extract_from_prefix_word(word)
PrefixCall ==
    /\ pc = "token"
    /\ answer' = _extract_from_prefix_word(config, query.word)
    /\ pc' = "prefix_tried"
    /\ UNCHANGED <<config, text, sep_marker, parts, part_idx, name_map,
                   name_to_placeholder, name_index, occurrence_cache,
                   replaced_parts, all_names, candidates, selected, replacements,
                   result, calls, first, query>>

(***************************************************************************)
(* Specifications.                                                         *)
(***************************************************************************)
\* a NameGuard instance that has not been called
Constructed ==
    /\ text = <<>>
    /\ sep_marker = <<>>
    /\ parts = <<>>
    /\ part_idx = 0
    /\ name_map = <<>>
    /\ name_to_placeholder = <<>>
    /\ name_index = 0
    /\ occurrence_cache = <<>>
    /\ replaced_parts = <<>>
    /\ all_names = <<>>
    /\ candidates = <<>>
    /\ selected = <<>>
    /\ replacements = <<>>
    /\ result = NoResult
    /\ calls = 0
    /\ first = NoCall
    /\ answer = NoAnswer

Init ==
    /\ config \in Configs
    /\ pc = "idle"
    /\ query = NoQuery
    /\ Constructed

Next == Call \/ ProcessPart \/ Return

\* one call of extract_and_replace_names on a fresh instance
Spec == Init /\ [][Next]_vars

NextCalls == CallAgain \/ ProcessPart \/ Return

\* up to MaxCalls calls on one instance
SpecCalls == Init /\ [][NextCalls]_vars

InitIsName ==
    /\ config \in IsNameConfigs
    /\ pc = "query"
    /\ query \in Queries \cup LegacyQueries
    /\ Constructed

NextIsName == IsNameCall \/ IsNameCallLegacy

\* one direct call of is_name
SpecIsName == InitIsName /\ [][NextIsName]_vars

InitAffix ==
    /\ config \in AffixConfigs
    /\ pc = "token"
    /\ query \in AffixQueries
    /\ Constructed

NextAffix == SuffixCall \/ PrefixCall

\* one direct call of an affix matcher
SpecAffix == InitAffix /\ [][NextAffix]_vars

(***************************************************************************)
(* Properties.                                                             *)
(***************************************************************************)
\* two half-open spans intersect
SpansOverlap(a, b) == a.start < b.end /\ a.end > b.start

\* by how much the replacements of the spans that start before `start`
\* lengthen a part: the first j entries of reps
RECURSIVE GrowthBefore(_, _, _)
GrowthBefore(reps, start, j) ==
    IF j = 0 THEN 0
    ELSE (IF reps[j][1] < start THEN Len(reps[j][3]) - (reps[j][2] - reps[j][1]) ELSE 0)
         + GrowthBefore(reps, start, j - 1)

\* where the span of selected[k][i] begins in the rewritten k-th part
NewStart(k, i) ==
    selected[k][i].start
    + GrowthBefore(replacements[k], selected[k][i].start, Len(replacements[k]))

\* the placeholder that replaced selected[k][i]
PlaceholderOf(k, i) == replacements[k][i][3]

\* C1: in every segment, no two distinct selected candidates have overlapping
\* [start, end) spans, and the spans replaced are the selected ones, so no
\* character is covered by two replacements.
C1_NonOverlap ==
    \A k \in 1..Len(selected) :
        /\ \A i, j \in 1..Len(selected[k]) :
               i # j => ~SpansOverlap(selected[k][i], selected[k][j])
        /\ Len(replacements[k]) = Len(selected[k])
        /\ \A i \in 1..Len(selected[k]) :
               /\ replacements[k][i][1] = selected[k][i].start
               /\ replacements[k][i][2] = selected[k][i].end

\* a segment whose candidates overlap and of which two were selected
C1_Witness ==
    \E k \in 1..Len(selected) :
        /\ Len(selected[k]) >= 2
        /\ \E i, j \in 1..Len(candidates[k]) :
               /\ i # j
               /\ SpansOverlap(candidates[k][i], candidates[k][j])
               /\ candidates[k][i].start # candidates[k][j].start

\* C2: after any number of segments, name_to_placeholder is a function, every
\* name in it is the value of exactly one entry of the placeholder map (the
\* entry of its placeholder), and every selected occurrence of a name, in every
\* segment processed, was rewritten with the placeholder of that name.
C2_DedupStable ==
    /\ \A i, j \in 1..Len(name_to_placeholder) :
           i # j => name_to_placeholder[i][1] # name_to_placeholder[j][1]
    /\ \A i \in 1..Len(name_to_placeholder) :
           /\ Cardinality({j \in 1..Len(name_map) :
                              name_map[j][2] = name_to_placeholder[i][1]}) = 1
           /\ DictHas(name_map, name_to_placeholder[i][2])
           /\ DictGet(name_map, name_to_placeholder[i][2]) = name_to_placeholder[i][1]
    /\ \A k \in 1..Len(selected) :
           \A i \in 1..Len(selected[k]) :
               /\ DictHas(name_to_placeholder, selected[k][i].name)
               /\ PlaceholderOf(k, i) = DictGet(name_to_placeholder, selected[k][i].name)
               /\ OccursAt(replaced_parts[k], PlaceholderOf(k, i), NewStart(k, i))

\* one name selected in two segments, extracted in two different ways
C2_Witness ==
    \E k1, k2 \in 1..Len(selected) :
        /\ k1 < k2
        /\ \E i \in 1..Len(selected[k1]) : \E j \in 1..Len(selected[k2]) :
               /\ selected[k1][i].name = selected[k2][j].name
               /\ selected[k1][i].affix_type # selected[k2][j].affix_type

\* C3: a word of known_names is accepted by is_name with score 999, whatever
\* the context, the flags and the rest of the RuleSet, in name_guard_v2 and in
\* the legacy module alike.
C3_AllowListWins ==
    (pc = "answered" /\ query.word \in config.known_names)
        => (answer.is_name /\ answer.score = 999)

\* an allow-listed word that gate 1 rejects, asked about with no signal at all
C3_Witness ==
    /\ pc = "answered"
    /\ query.word \in config.known_names
    /\ is_strongly_excluded(config, query.word)
    /\ config.require_strong_signal
    /\ query.module = "name_guard_v2"
    /\ ~query.flags.has_affix
    /\ ~query.flags.is_call_position

\* C4: the call returns n distinct names and a map of n entries whose keys are
\* the placeholder format applied to 0 .. n-1, the i-th key mapped to the i-th
\* name.
C4_PlaceholdersNumbered ==
    pc = "done" =>
        LET names == result.all_names
            nm    == result.name_map
            n     == Len(names)
        IN  /\ \A i, j \in 1..n : i # j => names[i] # names[j]
            /\ Len(nm) = n
            /\ \A i, j \in 1..Len(nm) : i # j => nm[i][1] # nm[j][1]
            /\ DictKeys(nm) = {PyFormat(config.name_placeholder_format, i) : i \in 0..(n - 1)}
            /\ \A i \in 0..(n - 1) :
                   DictGet(nm, PyFormat(config.name_placeholder_format, i)) = names[i + 1]

\* a call that returned two names or more, one of them replaced more than once
C4_Witness ==
    /\ pc = "done"
    /\ Len(result.all_names) >= 2
    /\ \E k1, k2 \in 1..Len(selected) :
           \E i \in 1..Len(selected[k1]) : \E j \in 1..Len(selected[k2]) :
               /\ <<k1, i>> # <<k2, j>>
               /\ selected[k1][i].name = selected[k2][j].name

\* C5 as stated: every value of the returned map (a name) is a substring of
\* the rewritten text.
C5_NamesStayInText ==
    pc = "done" =>
        \A name \in DictValues(result.name_map) : Contains(result.replaced_text, name)

\* C5, amended: every key of the returned map (a placeholder) is a substring
\* of the rewritten text.
C5_PlaceholdersInText ==
    pc = "done" =>
        \A placeholder \in DictKeys(result.name_map) :
            Contains(result.replaced_text, placeholder)

\* a call that returned two names, one of which is gone from the text
C5_Witness ==
    /\ pc = "done"
    /\ Len(result.name_map) >= 2
    /\ \E name \in DictValues(result.name_map) : ~Contains(result.replaced_text, name)

\* C6 as stated: splitting the rewritten text by the separator gives the
\* rewritten segments, as many as the text has.
C6_SegmentsPreserved ==
    pc = "done" =>
        /\ PySplit(result.replaced_text, sep_marker) = replaced_parts
        /\ Len(PySplit(result.replaced_text, sep_marker)) = Len(PySplit(text, sep_marker))

\* C7 as stated: no call ends in an exception.
C7_NeverRaises == pc # "error"

\* the characters of the affix of selected[k][i] in the k-th part, as a span
AffixSpan(k, i) ==
    IF selected[k][i].affix_type = "suffix"
    THEN [start |-> selected[k][i].end,
          end   |-> selected[k][i].end + Len(selected[k][i].affix)]
    ELSE [start |-> selected[k][i].start - Len(selected[k][i].affix),
          end   |-> selected[k][i].start]

\* C8 as stated: the affix of every selected affixed candidate stands unchanged
\* next to its placeholder in the rewritten segment, and no other selected
\* candidate covers a character of it.
C8_AffixPreserved ==
    \A k \in 1..Len(selected) :
        \A i \in 1..Len(selected[k]) :
            selected[k][i].has_affix =>
                /\ IF selected[k][i].affix_type = "suffix"
                   THEN OccursAt(replaced_parts[k],
                                 PlaceholderOf(k, i) \o selected[k][i].affix,
                                 NewStart(k, i))
                   ELSE OccursAt(replaced_parts[k],
                                 selected[k][i].affix \o PlaceholderOf(k, i),
                                 NewStart(k, i) - Len(selected[k][i].affix))
                /\ \A j \in 1..Len(selected[k]) :
                       j # i => ~SpansOverlap(selected[k][j], AffixSpan(k, i))

\* C9 as stated: wherever an allow-listed name of 1 to 3 characters occurs in a
\* segment, a candidate of that name at that offset is selected.
C9_AllowListedReplacedEverywhere ==
    \A k \in 1..Len(selected) :
        \A w \in config.known_names :
            Len(w) \in 1..3 =>
                \A off \in 0..Len(parts[k]) :
                    OccursAt(parts[k], w, off) =>
                        \E i \in 1..Len(selected[k]) :
                            /\ selected[k][i].name = w
                            /\ selected[k][i].start = off

\* C10: a call with the arguments of the instance's first call returns what
\* the first call returned; every call starts from fresh locals, the index at
\* 0; the RuleSet is the one the instance was built with.
C10_CallsIndependent ==
    /\ first.result.kind # "none" => config = first.config
    /\ (/\ pc \in {"done", "error"}
        /\ first.result.kind # "none"
        /\ text = first.text
        /\ sep_marker = first.sep_marker) => result = first.result
    /\ (pc = "loop" /\ part_idx = 0) =>
           /\ name_index = 0
           /\ name_map = <<>>
           /\ name_to_placeholder = <<>>
           /\ occurrence_cache = <<>>
           /\ all_names = <<>>

\* the last of MaxCalls calls repeats the first one, which found names, after
\* a call with other arguments
C10_Witness ==
    /\ pc = "done"
    /\ calls >= 3
    /\ first.other_since
    /\ text = first.text
    /\ sep_marker = first.sep_marker
    /\ result.all_names # <<>>

\* every rule weight of the RuleSet is 0
AllWeightsZero(cfg) ==
    /\ cfg.honorific_suffix_weight = 0
    /\ cfg.honorific_prefix_weight = 0
    /\ cfg.call_position_weight = 0
    /\ cfg.repetition_weight = 0
    /\ cfg.pos_exclusion_weight = 0
    /\ cfg.length_structure_weight = 0

\* C11 as stated: under a RuleSet with every weight 0 and gate 2 off, is_name
\* of name_guard_v2 accepts every word whose length is a preferred length.
C11_ZeroWeightsAcceptPreferred ==
    (/\ pc = "answered"
     /\ query.module = "name_guard_v2"
     /\ AllWeightsZero(config)
     /\ ~config.require_strong_signal
     /\ InSeq(Len(query.word), config.length_preferred)) => answer.is_name

\* a weight if its rule fired, nothing otherwise
WeightIf(fired, weight) == IF fired THEN weight ELSE 0

\* the length-structure rule fires: a preferred length and no excluded ending
LengthRuleFires(cfg, word) ==
    /\ InSeq(Len(word), cfg.length_preferred)
    /\ ~\E i \in 1..Len(cfg.length_exclude_endings) :
            EndsWith(word, cfg.length_exclude_endings[i])

\* the sum of the weights of the rules that fire for a query of name_guard_v2
RuleSum(cfg, q) ==
    WeightIf(q.flags.has_affix, cfg.honorific_suffix_weight)
    + WeightIf(q.flags.is_call_position, cfg.call_position_weight)
    + WeightIf(PyCount(q.context, q.word) >= cfg.repetition_min_occurrences,
               cfg.repetition_weight)
    + WeightIf(q.word \in cfg.pos_exclusion_words, cfg.pos_exclusion_weight)
    + WeightIf(LengthRuleFires(cfg, q.word), cfg.length_structure_weight)

\* the same for a query of the legacy module, whose suffix rule looks at the
\* ending of the word itself
RuleSumLegacy(cfg, q) ==
    WeightIf(\E i \in 1..Len(cfg.honorific_suffix_patterns) :
                 EndsWith(q.word, cfg.honorific_suffix_patterns[i]),
             cfg.honorific_suffix_weight)
    + WeightIf(q.flags.is_utterance_start \/ q.flags.is_after_sep,
               cfg.call_position_weight)
    + WeightIf(PyCount(q.context, q.word) >= cfg.repetition_min_occurrences,
               cfg.repetition_weight)
    + WeightIf(q.word \in cfg.pos_exclusion_words, cfg.pos_exclusion_weight)
    + WeightIf(LengthRuleFires(cfg, q.word), cfg.length_structure_weight)

\* gate 2 as the module asked evaluates it for the query
Gate2Passed(cfg, q) ==
    IF q.module = "name_guard_v2"
    THEN score_candidate(cfg, q.word, q.context, q.flags.is_call_position,
                         q.flags.has_affix, <<>>).has_strong_signal
    ELSE \/ q.flags.skip_strong_signal_check
         \/ has_strong_signal(cfg, q.word, q.context, q.flags.is_utterance_start,
                              q.flags.is_after_sep, FALSE)

\* the verdict and the score the decision rule of the Scorer gives a query
Decision(cfg, q) ==
    LET known  == q.word \in cfg.known_names
        barred == \/ IF q.module = "name_guard_v2"
                     THEN is_strongly_excluded(cfg, q.word)
                     ELSE is_strongly_excluded_legacy(cfg, q.word)
                  \/ q.word \in cfg.exclude_names
        gated  == cfg.require_strong_signal /\ ~Gate2Passed(cfg, q)
        sum    == IF q.module = "name_guard_v2" THEN RuleSum(cfg, q)
                  ELSE RuleSumLegacy(cfg, q)
    IN  [is_name |-> known \/ (~barred /\ ~gated /\ sum >= cfg.threshold),
         score   |-> IF known THEN 999
                     ELSE IF barred THEN -999
                     ELSE IF gated THEN 0
                     ELSE sum]

StrongSignal(cfg, q) ==
    \/ q.flags.has_affix
    \/ /\ 2 <= Len(q.word) /\ Len(q.word) <= 3
       /\ PyCount(q.context, q.word) >= cfg.repetition_min_occurrences
    \/ /\ 2 <= Len(q.word) /\ Len(q.word) <= 3
       /\ q.flags.is_call_position

\* C13 as stated: with gate 2 required, is_name of name_guard_v2 lets a word
\* that is not allow-listed, strongly excluded or deny-listed through gate 2
\* (the answer is then its score against the threshold) iff the word has one
\* of the three strong signals, and otherwise rejects it with score 0,
\* whatever the weights of the call-position and repetition rules.
C13_Gate2IgnoresWeights ==
    (/\ pc = "answered"
     /\ query.module = "name_guard_v2"
     /\ config.require_strong_signal
     /\ query.word \notin config.known_names
     /\ ~is_strongly_excluded(config, query.word)
     /\ query.word \notin config.exclude_names) =>
        IF StrongSignal(config, query)
        THEN /\ answer.score = RuleSum(config, query)
             /\ answer.is_name = (RuleSum(config, query) >= config.threshold)
        ELSE ~answer.is_name /\ answer.score = 0

\* a configured suffix that ends the word and leaves a name of 1 to 3
\* characters before it
SuffixFits(cfg, word, i) ==
    /\ EndsWith(word, cfg.honorific_suffix_patterns[i])
    /\ Len(word) - Len(cfg.honorific_suffix_patterns[i]) \in 1..3

\* C14 as stated: _extract_from_suffix_word decomposes a token with the
\* longest configured suffix that fits it, never with a shorter suffix and a
\* longer name.
C14_LongestSuffix ==
    pc = "suffix_tried" =>
        /\ answer.matched =
               (\E i \in 1..Len(config.honorific_suffix_patterns) :
                    SuffixFits(config, query.word, i))
        /\ answer.matched =>
               \A i \in 1..Len(config.honorific_suffix_patterns) :
                   SuffixFits(config, query.word, i) =>
                       Len(config.honorific_suffix_patterns[i]) <= Len(answer.affix)

\* C15 as stated: a plain candidate of a segment starts at offset 0 of the
\* segment, or follows a boundary character, or is followed by one.
C15_PlainAtBoundary ==
    \A k \in 1..Len(candidates) :
        \A i \in 1..Len(candidates[k]) :
            LET c == candidates[k][i]
            IN  ~c.has_affix =>
                    \/ c.start = 0
                    \/ c.start > 0 /\ parts[k][c.start] \in BOUNDARY_CHARS
                    \/ c.end < Len(parts[k]) /\ parts[k][c.end + 1] \in BOUNDARY_CHARS

\* the zero-based index of a name in the names list
IndexOfName(name) == (CHOOSE i \in 1..Len(all_names) : all_names[i] = name) - 1

\* the name of selected[k][i] was selected in no earlier segment
NewInSegment(k, i) ==
    \A k0 \in 1..(k - 1) :
        \A i0 \in 1..Len(selected[k0]) : selected[k0][i0].name # selected[k][i].name

\* selected[k][i] is the occurrence of its name in segment k of highest priority
BestOfName(k, i) ==
    \A j \in 1..Len(selected[k]) :
        selected[k][j].name = selected[k][i].name =>
            ~TupleGreater(priority(selected[k][j]), priority(selected[k][i]))

\* every selected span of the name of selected[k][i] in segment k starts after
\* every selected span of the name of selected[k][j]
StartsLater(k, i, j) ==
    \A a, b \in 1..Len(selected[k]) :
        (/\ selected[k][a].name = selected[k][i].name
         /\ selected[k][b].name = selected[k][j].name) =>
            selected[k][a].start > selected[k][b].start

\* names first selected in an earlier segment have the smaller indices
MintedInSegmentOrder ==
    \A k1, k2 \in 1..Len(selected) :
        \A i \in 1..Len(selected[k1]) : \A j \in 1..Len(selected[k2]) :
            (k1 < k2 /\ NewInSegment(k1, i) /\ NewInSegment(k2, j)) =>
                IndexOfName(selected[k1][i].name) < IndexOfName(selected[k2][j].name)

\* C16 as stated: placeholders are minted segment by segment and, of two names
\* first selected in the same segment, the one whose spans start later gets the
\* smaller index.
C16_MintedByDescendingStart ==
    /\ MintedInSegmentOrder
    /\ \A k \in 1..Len(selected) :
           \A i, j \in 1..Len(selected[k]) :
               (/\ selected[k][i].name # selected[k][j].name
                /\ NewInSegment(k, i)
                /\ NewInSegment(k, j)
                /\ StartsLater(k, i, j)) =>
                   IndexOfName(selected[k][i].name) < IndexOfName(selected[k][j].name)

\* C16, amended: placeholders are minted segment by segment and, of two names
\* first selected in the same segment, the one with the selected candidate of
\* higher priority (affixed first, then higher score, then smaller start) gets
\* the smaller index.
C16_MintedByPriority ==
    /\ MintedInSegmentOrder
    /\ \A k \in 1..Len(selected) :
           \A i, j \in 1..Len(selected[k]) :
               (/\ selected[k][i].name # selected[k][j].name
                /\ NewInSegment(k, i)
                /\ NewInSegment(k, j)
                /\ BestOfName(k, i)
                /\ BestOfName(k, j)
                /\ TupleGreater(priority(selected[k][i]), priority(selected[k][j]))) =>
                   IndexOfName(selected[k][i].name) < IndexOfName(selected[k][j].name)

\* a later segment that mints two names, the one of higher priority starting
\* first, after an earlier segment minted a name
C16_Witness ==
    \E k \in 2..Len(selected) :
        /\ \E i0 \in 1..Len(selected[1]) : TRUE
        /\ \E i, j \in 1..Len(selected[k]) :
               /\ selected[k][i].name # selected[k][j].name
               /\ NewInSegment(k, i)
               /\ NewInSegment(k, j)
               /\ BestOfName(k, i)
               /\ BestOfName(k, j)
               /\ TupleGreater(priority(selected[k][i]), priority(selected[k][j]))
               /\ StartsLater(k, j, i)

\* candidate a is considered before candidate b: affixed before plain, then
\* the higher score, then the smaller start
Outranks(a, b) ==
    \/ a.has_affix /\ ~b.has_affix
    \/ a.has_affix = b.has_affix /\ a.score > b.score
    \/ a.has_affix = b.has_affix /\ a.score = b.score /\ a.start < b.start

\* the candidate is one of the selected candidates of segment k
IsSelected(k, c) == \E i \in 1..Len(selected[k]) : selected[k][i] = c

\* C17: the selected candidates of a segment are candidates of it, taken in
\* decreasing priority (has_affix, score, -start), every affixed one before
\* every plain one whatever the scores; a candidate that was not selected
\* overlaps a selected candidate that it does not outrank, so the selection
\* is maximal.
C17_GreedyByPriority ==
    \A k \in 1..Len(selected) :
        /\ \A i \in 1..Len(selected[k]) : InSeq(selected[k][i], candidates[k])
        /\ \A i, j \in 1..Len(selected[k]) :
               i < j => /\ Outranks(selected[k][i], selected[k][j])
                        /\ ~SpansOverlap(selected[k][i], selected[k][j])
        /\ \A i \in 1..Len(candidates[k]) :
               ~IsSelected(k, candidates[k][i]) =>
                   \E j \in 1..Len(selected[k]) :
                       /\ SpansOverlap(candidates[k][i], selected[k][j])
                       /\ ~Outranks(candidates[k][i], selected[k][j])

\* a plain allow-listed candidate of score 999 dropped for an affixed
\* candidate of lower score that overlaps it
C17_Witness ==
    \E k \in 1..Len(selected) :
        \E i \in 1..Len(candidates[k]) : \E j \in 1..Len(selected[k]) :
            /\ ~candidates[k][i].has_affix
            /\ candidates[k][i].score = 999
            /\ ~IsSelected(k, candidates[k][i])
            /\ selected[k][j].has_affix
            /\ selected[k][j].score < 999
            /\ SpansOverlap(candidates[k][i], selected[k][j])

\* C18: every candidate of a segment has 0 <= start < end <= len(segment),
\* end - start = len(name) and segment[start:end] = name; the suffix of a
\* suffix candidate is segment[end : end + len(affix)], the prefix of a prefix
\* candidate is segment[start - len(affix) : start].
C18_CandidateOffsets ==
    \A k \in 1..Len(candidates) :
        \A i \in 1..Len(candidates[k]) :
            LET c == candidates[k][i]
            IN  /\ 0 <= c.start /\ c.start < c.end /\ c.end <= Len(parts[k])
                /\ c.end - c.start = Len(c.name)
                /\ PySlice(parts[k], c.start, c.end) = c.name
                /\ c.has_affix = (c.affix_type \in {"prefix", "suffix"})
                /\ c.affix_type = "suffix" =>
                       /\ c.affix # <<>>
                       /\ c.end + Len(c.affix) <= Len(parts[k])
                       /\ PySlice(parts[k], c.end, c.end + Len(c.affix)) = c.affix
                /\ c.affix_type = "prefix" =>
                       /\ c.affix # <<>>
                       /\ c.start - Len(c.affix) >= 0
                       /\ PySlice(parts[k], c.start - Len(c.affix), c.start) = c.affix

\* a segment after the first with a suffix candidate, a prefix candidate and
\* a plain candidate that all start after offset 0
C18_Witness ==
    \E k \in 2..Len(candidates) :
        /\ \E i \in 1..Len(candidates[k]) :
               candidates[k][i].affix_type = "suffix" /\ candidates[k][i].start > 0
        /\ \E i \in 1..Len(candidates[k]) :
               candidates[k][i].affix_type = "prefix"
        /\ \E i \in 1..Len(candidates[k]) :
               ~candidates[k][i].has_affix /\ candidates[k][i].start > 0

\* str.replace(old, new) from offset i on: the occurrences of old from left to
\* right, none overlapping another
RECURSIVE ReplaceFrom(_, _, _, _)
ReplaceFrom(s, old, new, i) ==
    IF i + Len(old) > Len(s) THEN PyFrom(s, i)
    ELSE IF OccursAt(s, old, i) THEN new \o ReplaceFrom(s, old, new, i + Len(old))
    ELSE <<s[i + 1]>> \o ReplaceFrom(s, old, new, i + 1)

\* every occurrence of each key of the map, from its j-th entry on, replaced
\* by the name the key is mapped to
RECURSIVE Restore(_, _, _)
Restore(s, nm, j) ==
    IF j > Len(nm) THEN s
    ELSE Restore(ReplaceFrom(s, nm[j][1], nm[j][2], 0), nm, j + 1)

\* no placeholder the format can give occurs in the text
NoPlaceholderIn(cfg, t) ==
    \A i \in 0..Len(t) : ~Contains(t, PyFormat(cfg.name_placeholder_format, i))

\* segment k from offset `from` on, built from left to right: the characters
\* outside the selected spans as they are, each selected span as the
\* placeholder of its name
RECURSIVE Spliced(_, _)
Spliced(k, from) ==
    LET ahead == {i \in 1..Len(selected[k]) : selected[k][i].start >= from}
    IN  IF ahead = {} THEN PyFrom(parts[k], from)
        ELSE LET i == CHOOSE a \in ahead :
                          \A b \in ahead : selected[k][a].start <= selected[k][b].start
             IN  PySlice(parts[k], from, selected[k][i].start)
                 \o DictGet(name_to_placeholder, selected[k][i].name)
                 \o Spliced(k, selected[k][i].end)

\* C19 as stated: if no placeholder occurs in the text, replacing in the
\* rewritten text every occurrence of each key of the map by its name gives
\* the text back.
C19_RoundTrip ==
    (pc = "done" /\ NoPlaceholderIn(config, text)) =>
        Restore(result.replaced_text, result.name_map, 1) = text

\* C19, amended: every rewritten segment is the segment with exactly the
\* selected spans replaced by the placeholders of their names and every other
\* character kept in place, each placeholder mapped back to the characters of
\* its span; with the default placeholder format, replacing the keys by their
\* names in the rewritten text gives back a text that holds no placeholder.
C19_SpansReplacedInPlace ==
    /\ \A k \in 1..Len(replaced_parts) :
           /\ replaced_parts[k] = Spliced(k, 0)
           /\ \A i \in 1..Len(selected[k]) :
                  DictGet(name_map, DictGet(name_to_placeholder, selected[k][i].name))
                      = PySlice(parts[k], selected[k][i].start, selected[k][i].end)
    /\ (/\ pc = "done"
        /\ config.name_placeholder_format = DefaultConfig.name_placeholder_format
        /\ NoPlaceholderIn(config, text)) =>
           Restore(result.replaced_text, result.name_map, 1) = text

\* a call that returned a text of several segments, one of them with two
\* spans replaced
C19_Witness ==
    /\ pc = "done"
    /\ Len(parts) >= 2
    /\ config.name_placeholder_format = DefaultConfig.name_placeholder_format
    /\ \E k \in 1..Len(selected) : Len(selected[k]) >= 2
    /\ Restore(result.replaced_text, result.name_map, 1) = text
    /\ result.replaced_text # text

====
